---- MODULE Spec2Model ----
(***************************************************************************)
(* Capture session of the Voice Scan page (src/src/pages/VoiceScan.jsx)    *)
(* with the asynchronous collaborators it talks to: getUserMedia, the      *)
(* MediaRecorder event stream, the interval / animation-frame / timeout    *)
(* timers, the analysis request and the backend health probe               *)
(* (src/api/client.js, stored at the end of src/src/pages/WearableFusion.jsx). *)
(*                                                                         *)
(* JavaScript runs every handler to completion, so each handler is one     *)
(* atomic action; everything that is awaited or queued is a separate       *)
(* action that the event loop may interleave with any other.               *)
(***************************************************************************)
EXTENDS Integers, Sequences, FiniteSets, TLC

\* ---------------------------------------------------------------- bounds
\* Number of times getUserMedia is requested in one behaviour.
MaxRec == 2
\* Number of encoded chunks the chunk list may hold.
MaxChunks == 1
\* Number of health probes that may be outstanding together.
MaxProbes == 2
\* Seconds of a recording explored by the specifications that do not follow the
\* tick up to its ceiling.
MaxEarly == 2
\* Number of final segments the transcript may hold.
MaxSegments == 1
\* Number of entries the tap list may hold in the motor test followed tap by tap.
MaxTaps == 6

\* ---------------------------------------------------------------- program constants
\* elapsed ceiling of the tick (VoiceScan.jsx:295)
MaxElapsed == 30
\* the Stop button is disabled below this elapsed value (VoiceScan.jsx:626)
MinStopElapsed == 2
\* minimum blob size accepted by mr.onstop (VoiceScan.jsx:245)
MinBlobSize == 1000
\* number of entries of STEPS (VoiceScan.jsx:121-129)
NumSteps == 7
\* seconds of a motor test window (MotorTest.jsx:26, 35, 84)
TestSeconds == 15
\* fewest taps that give statistics (MotorTest.jsx:73)
MinTaps == 5
\* timeoutMs of the analysis request, in ms (client.js: api.analyzeVoice)
AnalysisTimeoutMs == 90000
\* timeoutMs of the health request, in ms (client.js: checkBackendHealth)
HealthTimeoutMs == 4000

RecIds == 1..MaxRec
Patients == {1}
\* sizes (bytes) of the chunks a recorder may deliver; 0 is an empty chunk
ChunkSizes == {0, 400, 1000}
StepIds == 0..(NumSteps - 1)
AllSteps == [i \in 1..NumSteps |-> i - 1]

\* outcomes of the /health request as request() produces them
HealthOutcomes == {"neterr", "timeout", "httperr", "ready", "notready", "noflag"}
\* failures of the analysis request as request() reports them
AnalysisFailures == {"Timeout", "Network", "Http"}
MicFailures == {"NotAllowedError", "PermissionDeniedError", "NotFoundError", "Other"}

VARIABLES
    \* React state of VoiceScan
    stage, elapsed, result, error, analysisSteps, backendStatus, isSubmitting, bars,
    \* refs of VoiceScan
    mediaRecorder, audioChunks, timerRef, animFrameRef, streamRef, stepsTimers,
    \* props from App
    selectedPatient, vocalResult,
    \* component lifecycle
    mounted,
    \* environment: recorders (one per getUserMedia request), stream tracks,
    \* active interval timers, pending animation frames, requests in flight,
    \* pending 400 ms publish timeouts, outstanding health probes
    rec, tracks, timers, rafPending, requests, publishTimers, probes, nextId,
    \* history: outstanding requests that were in flight when reset ran, and the
    \* release calls of the last stopRecording / reset that hit a handle already
    \* released
    abandoned, staleFx,
    \* speech recognition of VoiceScan: whether the browser has
    \* window.SpeechRecognition, the ref, the recognizers created (one per
    \* recording at most) and the number of final segments in the transcript
    hasSpeechRecognition, recognitionRef, recognition, transcript,
    \* React state of FusionReport and what it renders
    fusionVocal, fusionMotor, fusionImaging, fusionLoading, fusionView,
    \* the sub-objects present in the result that VoiceScan holds
    resultParts,
    \* App: the page shown and the motor result shared with every page
    activePage, motorResult,
    \* React state of MotorTest
    motorStage, taps, timeLeft, metrics,
    \* environment of MotorTest: the rhythm and the input device of the taps of
    \* the current test window
    tapGaps, tapInput,
    \* the sub-objects that the responses of the backend's /analyze carry
    responseParts,
    \* the runtime's MediaRecorder: the entries of SUPPORTED_MIME (by position)
    \* that isTypeSupported accepts, and the mimeType of a recorder created
    \* without options
    supportedMimes, defaultMime,
    \* the extension of the file name of the upload of each request in flight
    uploads,
    \* how many of the outstanding health probes were issued before a probe
    \* that has already been answered (they are the oldest ones)
    lateProbes

vars == <<stage, elapsed, result, error, analysisSteps, backendStatus, isSubmitting, bars,
          mediaRecorder, audioChunks, timerRef, animFrameRef, streamRef, stepsTimers,
          selectedPatient, vocalResult, mounted,
          rec, tracks, timers, rafPending, requests, publishTimers, probes, nextId,
          abandoned, staleFx, hasSpeechRecognition, recognitionRef, recognition, transcript,
          fusionVocal, fusionMotor, fusionImaging, fusionLoading, fusionView,
          resultParts, activePage, motorResult, motorStage, taps, timeLeft, metrics,
          tapGaps, tapInput, responseParts, supportedMimes, defaultMime,
          uploads, lateProbes>>

uiState == <<stage, elapsed, result, error, analysisSteps, isSubmitting, bars>>
refs == <<mediaRecorder, audioChunks, timerRef, animFrameRef, streamRef, stepsTimers>>
health == <<backendStatus, probes, lateProbes>>
analysisEnv == <<requests, publishTimers, uploads>>
\* what the browser and the backend are, the same throughout a behaviour
environment == <<hasSpeechRecognition, responseParts, supportedMimes, defaultMime>>
speech == <<environment, recognitionRef, recognition, transcript>>
fusion == <<fusionVocal, fusionMotor, fusionImaging, fusionLoading, fusionView>>
motor == <<motorStage, taps, timeLeft, metrics, tapGaps, tapInput>>
app == <<activePage, motorResult>>

\* No stop task is queued for the recorder.
NoStop == [by |-> "none", early |-> FALSE, trk |-> "none"]

\* mimeType is the constant of startRecording's closure, type the recorder's
\* own mimeType
NoRecorder == [state |-> "none", patient |-> 0, stop |-> NoStop,
               mimeType |-> "", type |-> ""]

\* A state update of an unmounted component is dropped by React.
Set(old, new) == IF mounted THEN new ELSE old

RECURSIVE BlobSize(_)
\* new Blob(audioChunks.current).size; a chunk is modelled by its size in bytes
BlobSize(chunks) == IF chunks = <<>> THEN 0 ELSE Head(chunks) + BlobSize(Tail(chunks))

\* ---------------------------------------------------------------- fusion report
\* Numbers of FusionReport.jsx are kept as integers: risks in percent,
\* parkinson_prob in percent (prob * 100), the striatal binding ratio in
\* hundredths. The values below are ones a double represents exactly, so that
\* the integer arithmetic gives what the JavaScript expression gives.

\* a field that is undefined / missing
Undefined == -1
\* risk_score of a voice session
VocalScores == {5 * k : k \in 0..20}
\* parkinson_prob * 100 of a voice session
ProbPercents == {0, 50}
\* sbr * 100 of an imaging session (a healthy ratio is above 1.1)
SbrValues == {0, 50, 100, 125, 250}
\* label of a motor session as stored by the backend
MotorLabels == {"Non-Parkinsonian", "Stage 0", "Early", "Established"}

NoVocal == [present |-> FALSE, risk_score |-> Undefined, parkinson_prob |-> Undefined]
NoMotor == "none"
NoImaging == [present |-> FALSE, sbr |-> Undefined]

\* res.sessions[0] / res.motor_sessions[0] / res.imaging_sessions[0] of
\* api.getPatient; the absent value stands for an empty list
VocalSessions ==
    {NoVocal} \cup [present : {TRUE},
                    risk_score : VocalScores \cup {Undefined},
                    parkinson_prob : ProbPercents \cup {Undefined}]
MotorSessions == {NoMotor} \cup MotorLabels
ImagingSessions == {NoImaging} \cup [present : {TRUE}, sbr : SbrValues \cup {Undefined}]

\* risk of a motor session loaded from the server, from its label
MotorRiskOfLabel(label) ==
    IF label \in {"Non-Parkinsonian", "Stage 0"} THEN "Low"
    ELSE IF label = "Early" THEN "Medium"
    ELSE "High"

\* a || b of JavaScript on numbers: undefined, NaN and 0 are falsy
Or(a, b) == IF a # Undefined /\ a # 0 THEN a ELSE b

\* Math.round of x / 100: nearest integer, ties towards +infinity
Round100(x) == (x + 50) \div 100

\* vocalResult.prediction?.risk_score || (parkinson_prob * 100) || 0
VocalRisk(v) == Or(Or(v.risk_score, v.parkinson_prob), 0)

\* motorResult.risk === 'High' ? 90 : motorResult.risk === 'Medium' ? 60 : 20
MotorRisk(m) == IF m = "High" THEN 90 ELSE IF m = "Medium" THEN 60 ELSE 20

\* (1.0 - (imagingResult.sbr || 1.0)) * 100
ImageRisk(i) == 100 - Or(i.sbr, 100)

\* a fusion with the two-domain weights exchanged
FusedScoreSwapped(v, m, i) ==
    IF i.present
    THEN Round100(30 * VocalRisk(v) + 30 * MotorRisk(m) + 40 * ImageRisk(i))
    ELSE Round100(55 * VocalRisk(v) + 45 * MotorRisk(m))

\* fusedScore: three-domain weights when an imaging result exists
FusedScore(v, m, i) ==
    IF i.present
    THEN Round100(30 * VocalRisk(v) + 30 * MotorRisk(m) + 40 * ImageRisk(i))
    ELSE Round100(45 * VocalRisk(v) + 55 * MotorRisk(m))

\* finalLabel
FinalLabel(fusedScore) ==
    IF fusedScore > 85 THEN "High Clinical Suspicion"
    ELSE IF fusedScore > 60 THEN "Moderate Concern"
    ELSE IF fusedScore > 40 THEN "Prodromal / Early Signs"
    ELSE "Healthy"

\* the incomplete-data guard asking for both results to be absent
IncompleteIfBothAbsent(v, m) == ~v.present /\ m = NoMotor

\* !vocalResult || !motorResult
Incomplete(v, m) == ~v.present \/ m = NoMotor

\* the "Complete Voice Scan" / "Complete Motor Test" buttons
MissingDomains(v, m) ==
    (IF ~v.present THEN {"Vocal"} ELSE {}) \cup (IF m = NoMotor THEN {"Motor"} ELSE {})

NoScore == [kind |-> "loading", missing |-> {}, domains |-> 0, vocalRisk |-> 0,
            motorRisk |-> 0, imageRisk |-> 0, fusedScore |-> Undefined, finalLabel |-> ""]

\* what FusionReport renders for its state
FusionReport(v, m, i, loading) ==
    IF loading THEN NoScore
    ELSE IF Incomplete(v, m)
    THEN [NoScore EXCEPT !.kind = "incomplete", !.missing = MissingDomains(v, m)]
    ELSE [kind |-> "report", missing |-> {},
          domains |-> IF i.present THEN 3 ELSE 2,
          vocalRisk |-> VocalRisk(v),
          motorRisk |-> MotorRisk(m),
          imageRisk |-> IF i.present THEN ImageRisk(i) ELSE 0,
          fusedScore |-> FusedScore(v, m, i),
          finalLabel |-> FinalLabel(FusedScore(v, m, i))]


\* ---------------------------------------------------------------- MIME negotiation
\* SUPPORTED_MIME, in order of preference
SUPPORTED_MIME ==
    <<"audio/mp4", "audio/webm;codecs=opus", "audio/webm", "audio/ogg;codecs=opus",
      "audio/ogg", "audio/wav">>

\* mimeType of a recorder created without a mimeType option; the empty
\* string is a runtime that reports none
RuntimeDefaults == {"", "audio/mp4", "audio/webm;codecs=opus", "audio/ogg;codecs=opus"}

\* the characters of the strings that occur, so that includes() is the search
\* for a substring
Chars(str) ==
    CASE str = "audio/mp4" -> <<"a", "u", "d", "i", "o", "/", "m", "p", "4">>
      [] str = "audio/webm;codecs=opus" -> <<"a", "u", "d", "i", "o", "/", "w", "e", "b", "m", ";", "c", "o", "d", "e", "c", "s", "=", "o", "p", "u", "s">>
      [] str = "audio/webm" -> <<"a", "u", "d", "i", "o", "/", "w", "e", "b", "m">>
      [] str = "audio/ogg;codecs=opus" -> <<"a", "u", "d", "i", "o", "/", "o", "g", "g", ";", "c", "o", "d", "e", "c", "s", "=", "o", "p", "u", "s">>
      [] str = "audio/ogg" -> <<"a", "u", "d", "i", "o", "/", "o", "g", "g">>
      [] str = "audio/wav" -> <<"a", "u", "d", "i", "o", "/", "w", "a", "v">>
      [] str = "mp4" -> <<"m", "p", "4">>
      [] str = "m4a" -> <<"m", "4", "a">>
      [] str = "aac" -> <<"a", "a", "c">>
      [] str = "ogg" -> <<"o", "g", "g">>
      [] str = "wav" -> <<"w", "a", "v">>
      [] str = "wave" -> <<"w", "a", "v", "e">>
      [] str = "webm" -> <<"w", "e", "b", "m">>
      [] str = "" -> <<>>

\* a negotiation that takes the last supported entry of the list
getSupportedMimeLast(supported) ==
    IF supported = {} THEN ""
    ELSE SUPPORTED_MIME[CHOOSE i \in supported : \A j \in supported : j <= i]

\* getSupportedMime(): the first entry that MediaRecorder.isTypeSupported
\* accepts, '' when there is none
getSupportedMime(supported) ==
    IF supported = {} THEN ""
    ELSE SUPPORTED_MIME[CHOOSE i \in supported : \A j \in supported : i <= j]

\* mr.mimeType of new MediaRecorder(stream, mimeType ? { mimeType } : {})
RecorderMime(mimeType, default) == IF mimeType # "" THEN mimeType ELSE default

\* mr.mimeType || mimeType || 'audio/webm', the type of the blob
FinalMime(r) ==
    IF r.type # "" THEN r.type
    ELSE IF r.mimeType # "" THEN r.mimeType
    ELSE "audio/webm"

\* hay.includes(needle)
Includes(hay, needle) ==
    LET h == Chars(hay)
        n == Chars(needle)
    IN \E i \in 0..(Len(h) - Len(n)) : SubSeq(h, i + 1, i + Len(n)) = n

\* the extension api.analyzeVoice gives the file name, from audioBlob.type
analyzeVoiceExt(mime) ==
    IF Includes(mime, "mp4") \/ Includes(mime, "m4a") \/ Includes(mime, "aac") THEN "m4a"
    ELSE IF Includes(mime, "ogg") THEN "ogg"
    ELSE IF Includes(mime, "wav") \/ Includes(mime, "wave") THEN "wav"
    ELSE IF Includes(mime, "webm") THEN "webm"
    ELSE "webm"

\* ---------------------------------------------------------------- analysis result
\* the sub-objects of the response of /analyze that VoiceScan reads
AnalysisParts == {"prediction", "biomarkers", "clinical"}
\* the complete response and the responses that lack one sub-object
ResultShapes == {AnalysisParts} \cup {AnalysisParts \ {x} : x \in AnalysisParts}

\* the "partial data" alert of the result view:
\* (!result.prediction || !result.clinical)
PartialDataAlert(parts) == "prediction" \notin parts \/ "clinical" \notin parts

\* ---------------------------------------------------------------- motor test
\* Time stamps of taps (Date.now()) are kept in units of 50 ms, counted from
\* the first tap; the statistics of calculateResults are ratios of intervals,
\* which neither the unit nor the origin changes.

\* the gaps between successive taps of a window alternate between two values:
\* a regular rhythm (CV 0), a mildly irregular (CV 25 %) and an irregular one
TapRhythms == {<<4, 4>>, <<3, 5>>, <<2, 8>>}
\* what one tap on the tap zone delivers to the handlers: "single" is one
\* handler call (a mouse, or a touch whose compatibility mouse events are
\* suppressed); "double" is a touch followed by the browser's compatibility
\* mousedown, which is what happens when preventDefault() is called in a
\* touchstart listener that was registered as passive
TapInputs == {"single", "double"}

\* metrics === null / the motorResult of App before any test
NoMetrics == [kind |-> "none", totalTaps |-> Undefined, speed |-> Undefined,
              irregularity |-> Undefined, risk |-> "", hy_guess |-> ""]
\* { error: "Insufficient data. Please tap faster." }
ErrorMetrics == [NoMetrics EXCEPT !.kind = "error"]

\* the gap before the tap with index k (0-based) of a window
GapBefore(g, k) == IF k % 2 = 1 THEN g[1] ELSE g[2]

\* Date.now() of the next entry of the tap list: with "double" input every
\* second entry is the compatibility mousedown of the touch before it
StampAfter(t, g, d) ==
    IF t = <<>> THEN 0
    ELSE IF d = "double"
         THEN IF Len(t) % 2 = 1 THEN t[Len(t)]
              ELSE t[Len(t)] + GapBefore(g, Len(t) \div 2)
         ELSE t[Len(t)] + GapBefore(g, Len(t))

RECURSIVE Series(_, _, _)
\* the tap list after n entries of a window tapped in rhythm g with input d
Series(g, d, n) ==
    IF n = 0 THEN <<>>
    ELSE LET t == Series(g, d, n - 1) IN Append(t, StampAfter(t, g, d))

\* intervals.push(taps[i] - taps[i-1])
Intervals(t) == [i \in 1..(Len(t) - 1) |-> t[i + 1] - t[i]]

RECURSIVE Sum(_)
\* intervals.reduce((a, b) => a + b, 0)
Sum(x) == IF x = <<>> THEN 0 ELSE Head(x) + Sum(Tail(x))

RECURSIVE SumSq(_)
SumSq(x) == IF x = <<>> THEN 0 ELSE Head(x) * Head(x) + SumSq(Tail(x))

\* n^2 * variance of the intervals: n * sum(x^2) - sum(x)^2, so that
\* irregularity = stdDev / meanInterval * 100 = 100 * sqrt(Dev(t)) / Sum
Dev(t) == LET x == Intervals(t) IN Len(x) * SumSq(x) - Sum(x) * Sum(x)

\* irregularity > pct; with a zero mean the quotient is NaN and every
\* comparison is false
CvAbove(t, pct) ==
    LET S == Sum(Intervals(t)) IN
    S > 0 /\ 10000 * Dev(t) > pct * pct * S * S

RECURSIVE IsqrtIn(_, _, _)
\* the largest r in lo..hi with r * r <= y, by bisection
IsqrtIn(y, lo, hi) ==
    IF lo = hi THEN lo
    ELSE LET mid == (lo + hi + 1) \div 2
         IN IF mid * mid <= y THEN IsqrtIn(y, mid, hi) ELSE IsqrtIn(y, lo, mid - 1)

\* irregularity.toFixed(1) in tenths of a percent: the integer k nearest to
\* 1000 * sqrt(Dev) / Sum, i.e. (2k-1)^2 <= 4 * 10^6 * Dev / Sum^2 < (2k+1)^2,
\* which is (r + 1) \div 2 for r the integer square root of the quotient;
\* the quotient is taken by long division to stay within 32 bits.
\* Undefined stands for NaN.
CvTenths(t) ==
    LET S == Sum(Intervals(t))
        den == S * S
        num == 4 * Dev(t)
        r0 == num % den
        r1 == (r0 * 1000) % den
        y == (num \div den) * 1000000 + ((r0 * 1000) \div den) * 1000 + ((r1 * 1000) \div den)
    IN IF S = 0 THEN Undefined
       ELSE (IsqrtIn(y, 0, 4000) + 1) \div 2

\* (taps.length / 15).toFixed(1) in tenths: the nearest tenth of n / 15
\* (2n / 3 is never halfway between two integers)
SpeedTenths(n) == (4 * n + 3) \div 6

\* a threshold that lets three taps through
TooFewTapsLax(n) == n < 3

\* taps.length < 5
TooFewTaps(n) == n < MinTaps

\* the result object of calculateResults for the tap list t; speed is the
\* rounded string, and it is the rounded value that is compared
calculateResults(t) ==
    IF TooFewTaps(Len(t)) THEN ErrorMetrics
    ELSE LET speed == SpeedTenths(Len(t))
             risk == IF CvAbove(t, 35) \/ speed < 25 THEN "High"
                     ELSE IF CvAbove(t, 20) \/ speed < 40 THEN "Medium"
                     ELSE "Low"
         IN [kind |-> "metrics",
             totalTaps |-> Len(t),
             speed |-> speed,
             irregularity |-> CvTenths(t),
             risk |-> risk,
             hy_guess |-> IF risk = "High" THEN "H&Y Stage 2.5+"
                          ELSE IF risk = "Medium" THEN "H&Y Stage 1-2"
                          ELSE "H&Y Stage 0"]

\* the motorResult prop as FusionReport reads it: its risk field
MotorProp(m) ==
    IF m.kind = "none" THEN NoMotor
    ELSE IF m.kind = "error" THEN "undefined"
    ELSE m.risk

\* what is the same in every initial state
Fresh ==
    /\ elapsed = 0
    /\ result = 0
    /\ resultParts = {}
    /\ error = ""
    /\ analysisSteps = <<>>
    /\ backendStatus = "checking"
    /\ isSubmitting = FALSE
    /\ bars = "flat"
    /\ mediaRecorder = 0
    /\ audioChunks = <<>>
    /\ timerRef = 0
    /\ animFrameRef = 0
    /\ streamRef = 0
    /\ stepsTimers = {}
    /\ selectedPatient = 0
    /\ vocalResult = 0
    /\ motorResult = NoMetrics
    /\ metrics = NoMetrics
    /\ rec = [r \in RecIds |-> NoRecorder]
    /\ tracks = [r \in RecIds |-> "none"]
    /\ timers = {}
    /\ rafPending = {}
    /\ requests = {}
    /\ publishTimers = {}
    /\ uploads = [r \in RecIds |-> ""]
    /\ lateProbes = 0
    /\ nextId = 1
    /\ abandoned = {}
    /\ staleFx = {}
    /\ recognitionRef = 0
    /\ recognition = [r \in RecIds |-> "none"]
    /\ transcript = 0
    /\ fusionVocal = NoVocal
    /\ fusionMotor = NoMotor
    /\ fusionImaging = NoImaging
    /\ fusionLoading = TRUE
    /\ fusionView = FusionReport(NoVocal, NoMotor, NoImaging, TRUE)

\* The Voice Scan page has just been opened: its first health probe is in
\* flight.
Opened ==
    /\ Fresh
    /\ stage = "idle"
    /\ mounted = TRUE
    /\ probes = 1
    /\ activePage = "scan"
    /\ motorStage = "intro"
    /\ taps = <<>>
    /\ timeLeft = TestSeconds
    /\ tapGaps = <<4, 4>>
    /\ tapInput = "single"

\* The page just opened, in a runtime that records WebM / Opus.
Init ==
    /\ Opened
    /\ hasSpeechRecognition \in BOOLEAN
    /\ responseParts \in ResultShapes
    /\ supportedMimes = {2, 3}
    /\ defaultMime = "audio/webm;codecs=opus"

\* The page just opened, in any runtime: whatever isTypeSupported accepts of
\* SUPPORTED_MIME and whatever a recorder without options records.
InitMime ==
    /\ Opened
    /\ hasSpeechRecognition = FALSE
    /\ responseParts = AnalysisParts
    /\ supportedMimes \in SUBSET (1..Len(SUPPORTED_MIME))
    /\ defaultMime \in RuntimeDefaults

\* The page in a browser without window.SpeechRecognition, whatever the
\* responses of the backend carry.
InitAnyResponse == Init /\ ~hasSpeechRecognition

\* The page with a backend whose responses are complete. Which sub-objects
\* a result holds decides nothing but what the result view shows, so the
\* specifications that do not look at the result's content start here.
InitComplete == Init /\ responseParts = AnalysisParts

\* The same in a browser without window.SpeechRecognition. No action reads the
\* recognizer's state to decide anything about the rest of the page, so the
\* specifications that do not follow the recognizer start here.
InitNoSpeech == InitComplete /\ ~hasSpeechRecognition

\* ---------------------------------------------------------------- helpers
\* stopVisualizer: cancelAnimationFrame(animFrameRef.current) when the ref is set
RafAfterStopVisualizer == IF animFrameRef # 0 THEN rafPending \ {animFrameRef} ELSE rafPending

\* Release calls that stopRecording / reset issue on a handle that is no longer
\* live: timerRef and animFrameRef are never cleared after use.
StaleReleases ==
    (IF timerRef # 0 /\ timerRef \notin timers THEN {"clearInterval"} ELSE {})
    \cup (IF animFrameRef # 0 /\ animFrameRef \notin rafPending
          THEN {"cancelAnimationFrame"} ELSE {})

\* recognitionRef.current.stop() in stopRecording: the recognizer stops
\* listening; it may still deliver the result of the audio it already has.
RecognitionAfterStop ==
    IF recognitionRef # 0 /\ recognition[recognitionRef] = "running"
    THEN [recognition EXCEPT ![recognitionRef] = "stopping"]
    ELSE recognition

\* MediaRecorder.stop(): the recorder becomes inactive at once and the task that
\* fires the last dataavailable and then stop is queued. The queued task is
\* tagged with what ended the recording (by), whether that was before the
\* Stop button is enabled (early) and the state of the stream's tracks at the
\* moment of the call (trk).
RecorderStop(r, by, trk) ==
    [r EXCEPT !.state = "inactive",
              !.stop = [by |-> by, early |-> (elapsed < MinStopElapsed), trk |-> trk]]

\* a size check that lets short blobs through
TooShortLax(size) == size < 100

\* blob.size < 1000 in mr.onstop
TooShort(size) == size < MinBlobSize

\* checkBackendHealth(): request() throws on a network error, a timeout
\* and a non-2xx response; otherwise modelReady is data.model_ready.
checkBackendHealth(o) ==
    IF o \in {"neterr", "timeout", "httperr"}
    THEN [online |-> FALSE, modelReady |-> FALSE]
    ELSE [online |-> TRUE, modelReady |-> (o = "ready")]

\* what the network does with a request: the connection is refused, or the
\* response (2xx or not) arrives after `at` milliseconds
Responses == [kind : {"ok", "http", "refused"}, at : {1000, 5000, 100000}]
\* data.model_ready of a 2xx /health response
HealthFlags == {"ready", "notready", "noflag"}

\* a request() that reports an abort as a connection failure
requestConflated(timeoutMs, resp) ==
    IF resp.at > timeoutMs THEN "Network"
    ELSE CASE resp.kind = "refused" -> "Network"
           [] resp.kind = "http" -> "Http"
           [] resp.kind = "ok" -> "ok"

\* request(method, path, body, isForm, timeoutMs): the abort timer fires
\* when fetch has not settled after timeoutMs (AbortError, "Request timed
\* out"); a fetch that fails is "Cannot connect to backend"; a response that
\* is not ok throws its own message; otherwise the body is returned
request(timeoutMs, resp) ==
    IF resp.at > timeoutMs THEN "Timeout"
    ELSE CASE resp.kind = "refused" -> "Network"
           [] resp.kind = "http" -> "Http"
           [] resp.kind = "ok" -> "ok"

\* request("GET", "/health", null, false, 4000) as checkBackendHealth sees it
HealthOutcomeOf(resp, flag) ==
    LET o == request(HealthTimeoutMs, resp) IN
    CASE o = "Timeout" -> "timeout"
      [] o = "Network" -> "neterr"
      [] o = "Http" -> "httperr"
      [] o = "ok" -> flag

\* ---------------------------------------------------------------- health monitor
\* a probe that leaves the status as it is while it is in flight
pingBackendSilent ==
    /\ backendStatus' = backendStatus
    /\ probes' = probes + 1
    /\ lateProbes' = lateProbes

\* pingBackend up to the await
pingBackend ==
    /\ backendStatus' = Set(backendStatus, "checking")
    /\ probes' = probes + 1
    /\ lateProbes' = lateProbes

\* setInterval(pingBackend, 15000); cleared on unmount
PollTick ==
    /\ mounted
    /\ probes < MaxProbes
    /\ pingBackend
    /\ UNCHANGED <<uiState, refs, selectedPatient, vocalResult, mounted, speech, fusion, motor, app, resultParts, rec, tracks,
                   timers, rafPending, analysisEnv, nextId, abandoned, staleFx>>

\* "Retry Connection" / "Check Again" buttons
ClickRetry ==
    /\ mounted
    /\ backendStatus \in {"offline", "no_model"}
    /\ probes < MaxProbes
    /\ pingBackend
    /\ UNCHANGED <<uiState, refs, selectedPatient, vocalResult, mounted, speech, fusion, motor, app, resultParts, rec, tracks,
                   timers, rafPending, analysisEnv, nextId, abandoned, staleFx>>

\* pingBackend after the await, for any of the outstanding probes: the k-th
\* in the order of issue
ProbeResolve(o) ==
    /\ probes > 0
    /\ probes' = probes - 1
    /\ \E k \in 1..probes : lateProbes' = IF k <= lateProbes THEN lateProbes - 1 ELSE k - 1
    /\ LET h == checkBackendHealth(o) IN
       backendStatus' = Set(backendStatus,
                            IF ~h.online THEN "offline"
                            ELSE IF ~h.modelReady THEN "no_model" ELSE "online")
    /\ UNCHANGED <<uiState, refs, selectedPatient, vocalResult, mounted, speech, fusion, motor, app, resultParts, rec, tracks,
                   timers, rafPending, analysisEnv, nextId, abandoned, staleFx>>

\* App: the patient list is loaded / another patient is chosen in the selector
SelectPatient(p) ==
    /\ mounted
    /\ selectedPatient # p
    /\ selectedPatient' = p
    /\ UNCHANGED <<uiState, refs, health, vocalResult, mounted, speech, fusion, motor, app, resultParts, rec, tracks,
                   timers, rafPending, analysisEnv, nextId, abandoned, staleFx>>

\* ---------------------------------------------------------------- start
\* startRecording up to the await of getUserMedia
startRecording ==
    /\ error' = Set(error,
                    IF selectedPatient = 0 THEN "NoPatient"
                    ELSE IF backendStatus = "offline" THEN "BackendOffline"
                    ELSE IF backendStatus = "no_model" THEN "ModelNotReady"
                    ELSE "")
    /\ IF selectedPatient # 0 /\ backendStatus \notin {"offline", "no_model"}
       THEN /\ rec' = [rec EXCEPT ![nextId] =
                           [NoRecorder EXCEPT !.state = "acquiring",
                                              !.patient = selectedPatient]]
            /\ nextId' = nextId + 1
       ELSE UNCHANGED <<rec, nextId>>
    /\ UNCHANGED <<stage, elapsed, result, analysisSteps, isSubmitting, bars, refs, health,
                   selectedPatient, vocalResult, mounted, speech, fusion, motor, app, resultParts, tracks, timers, rafPending,
                   analysisEnv, abandoned, staleFx>>

\* the start button: rendered in idle / error, disabled without a patient or
\* unless the backend is online
ClickStart ==
    /\ mounted
    /\ stage \in {"idle", "error"}
    /\ selectedPatient # 0
    /\ backendStatus = "online"
    /\ nextId <= MaxRec
    /\ startRecording

\* getUserMedia resolves: the rest of startRecording
GumResolve(r) ==
    /\ rec[r].state = "acquiring"
    /\ tracks' = [tracks EXCEPT ![r] = "live"]
    /\ streamRef' = r
    /\ mediaRecorder' = r
    /\ audioChunks' = <<>>
    /\ LET mimeType == getSupportedMime(supportedMimes) IN
       rec' = [rec EXCEPT ![r].state = "recording",
                          ![r].mimeType = mimeType,
                          ![r].type = RecorderMime(mimeType, defaultMime)]
    /\ stage' = Set(stage, "recording")
    /\ elapsed' = Set(elapsed, 0)
    /\ rafPending' = rafPending \cup {r}
    /\ animFrameRef' = r
    /\ bars' = Set(bars, "live")
    /\ transcript' = Set(transcript, 0)
    \* window.SpeechRecognition may be absent
    /\ IF hasSpeechRecognition
       THEN /\ recognition' = [recognition EXCEPT ![r] = "running"]
            /\ recognitionRef' = r
       ELSE UNCHANGED <<recognition, recognitionRef>>
    /\ timers' = timers \cup {r}
    /\ timerRef' = r
    /\ UNCHANGED <<result, error, analysisSteps, isSubmitting, stepsTimers, health,
                   selectedPatient, vocalResult, mounted, fusion, motor, app, resultParts, analysisEnv, nextId,
                   abandoned, staleFx, environment>>

\* a catch block with one message for every failure
GumRejectGeneric(r, e) ==
    /\ rec[r].state = "acquiring"
    /\ rec' = [rec EXCEPT ![r].state = "failed"]
    /\ error' = Set(error, "DeviceError")
    /\ UNCHANGED <<stage, elapsed, result, analysisSteps, isSubmitting, bars, refs, health,
                   selectedPatient, vocalResult, mounted, speech, fusion, motor, app, resultParts, tracks, timers, rafPending,
                   analysisEnv, nextId, abandoned, staleFx>>

\* getUserMedia rejects: the catch block of startRecording
GumReject(r, e) ==
    /\ rec[r].state = "acquiring"
    /\ rec' = [rec EXCEPT ![r].state = "failed"]
    /\ error' = Set(error,
                    IF e \in {"NotAllowedError", "PermissionDeniedError"} THEN "PermissionDenied"
                    ELSE IF e = "NotFoundError" THEN "DeviceNotFound"
                    ELSE "DeviceError")
    /\ UNCHANGED <<stage, elapsed, result, analysisSteps, isSubmitting, bars, refs, health,
                   selectedPatient, vocalResult, mounted, speech, fusion, motor, app, resultParts, tracks, timers, rafPending,
                   analysisEnv, nextId, abandoned, staleFx>>

\* ---------------------------------------------------------------- recorder events
\* mr.ondataavailable during recording (timeslice 250 ms)
DataAvailable(r, s) ==
    /\ rec[r].state = "recording"
    /\ Len(audioChunks) < MaxChunks
    /\ audioChunks' = IF s > 0 THEN Append(audioChunks, s)
                      ELSE audioChunks
    /\ UNCHANGED <<uiState, mediaRecorder, timerRef, animFrameRef, streamRef, stepsTimers,
                   health, selectedPatient, vocalResult, mounted, speech, fusion, motor, app, resultParts, rec, tracks, timers,
                   rafPending, analysisEnv, nextId, abandoned, staleFx>>

\* mr.onerror; the recorder then stops by itself (dataavailable, stop)
RecorderError(r) ==
    /\ rec[r].state = "recording"
    /\ rec' = [rec EXCEPT ![r] = RecorderStop(@, "error", tracks[r])]
    /\ error' = Set(error, "RecorderError")
    /\ stage' = Set(stage, "error")
    /\ UNCHANGED <<elapsed, result, analysisSteps, isSubmitting, bars, refs, health,
                   selectedPatient, vocalResult, mounted, speech, fusion, motor, app, resultParts, tracks, timers, rafPending,
                   analysisEnv, nextId, abandoned, staleFx>>

\* runAnalysis(blob) called from the onstop of recorder r, up to the await.
\* selectedPatient is the one of the render that created the handlers.
runAnalysis(r) ==
    IF rec[r].patient = 0
    THEN /\ error' = Set(error, "NoPatient")
         /\ stage' = Set(stage, "error")
         /\ UNCHANGED <<isSubmitting, analysisSteps, stepsTimers, requests, uploads>>
    ELSE /\ isSubmitting' = Set(isSubmitting, TRUE)
         /\ analysisSteps' = Set(analysisSteps, <<>>)
         /\ stepsTimers' = StepIds
         /\ requests' = requests \cup {r}
         \* api.analyzeVoice names the file after the type of the blob
         /\ uploads' = [uploads EXCEPT ![r] = analyzeVoiceExt(FinalMime(rec[r]))]
         /\ UNCHANGED <<error, stage>>

\* the task queued by MediaRecorder.stop(): the last dataavailable (size s),
\* then mr.onstop
OnStop(r, s) ==
    /\ rec[r].stop # NoStop
    /\ (s > 0) => (Len(audioChunks) < MaxChunks)
    /\ LET chunks == IF s > 0
                     THEN Append(audioChunks, s)
                     ELSE audioChunks
       IN /\ audioChunks' = chunks
          /\ IF TooShort(BlobSize(chunks))
             THEN /\ error' = Set(error, "EmptyRecording")
                  /\ stage' = Set(stage, "error")
                  /\ UNCHANGED <<isSubmitting, analysisSteps, stepsTimers, requests, uploads>>
             ELSE runAnalysis(r)
          /\ rec' = [rec EXCEPT ![r].stop = NoStop]
    /\ UNCHANGED <<elapsed, result, bars, mediaRecorder, timerRef, animFrameRef, streamRef,
                   health, selectedPatient, vocalResult, mounted, speech, fusion, motor, app, resultParts, tracks, timers, rafPending,
                   publishTimers, nextId, abandoned, staleFx>>

\* ---------------------------------------------------------------- stop / cancel
\* stopRecording with the tracks stopped before recorder.stop() is called
stopRecordingTracksFirst ==
    /\ timers' = timers \ {timerRef}
    /\ rafPending' = RafAfterStopVisualizer
    /\ bars' = Set(bars, "flat")
    /\ staleFx' = StaleReleases
    /\ recognition' = RecognitionAfterStop
    /\ recognitionRef' = 0
    /\ tracks' = IF streamRef # 0 THEN [tracks EXCEPT ![streamRef] = "ended"] ELSE tracks
    /\ streamRef' = 0
    /\ rec' = IF mediaRecorder # 0 /\ rec[mediaRecorder].state = "recording"
              THEN [rec EXCEPT ![mediaRecorder] =
                        RecorderStop(@, "stop", tracks'[mediaRecorder])]
              ELSE rec
    /\ stage' = Set(stage, "analyzing")

\* stopRecording: clearInterval, stopVisualizer, recorder.stop(), then the
\* tracks are stopped, then setStage('analyzing'). No guard on the stage.
stopRecording ==
    /\ timers' = timers \ {timerRef}
    /\ rafPending' = RafAfterStopVisualizer
    /\ bars' = Set(bars, "flat")
    /\ staleFx' = StaleReleases
    /\ recognition' = RecognitionAfterStop
    /\ recognitionRef' = 0
    /\ rec' = IF mediaRecorder # 0 /\ rec[mediaRecorder].state = "recording"
              THEN [rec EXCEPT ![mediaRecorder] =
                        RecorderStop(@, "stop", tracks[mediaRecorder])]
              ELSE rec
    /\ tracks' = IF streamRef # 0 THEN [tracks EXCEPT ![streamRef] = "ended"] ELSE tracks
    /\ streamRef' = 0
    /\ stage' = Set(stage, "analyzing")

\* the "Stop & Analyze" button: rendered in recording, disabled while elapsed < 2
ClickStop ==
    /\ mounted
    /\ stage = "recording"
    /\ elapsed >= MinStopElapsed
    /\ stopRecording
    /\ UNCHANGED <<elapsed, result, error, analysisSteps, isSubmitting, mediaRecorder,
                   audioChunks, timerRef, animFrameRef, stepsTimers, health,
                   selectedPatient, vocalResult, mounted, environment, transcript,
                   fusion, motor, app, resultParts, analysisEnv, nextId, abandoned>>

\* the 1 s interval: setElapsed(e => e >= 30 ? (stopRecording(), 30) : e + 1)
Tick(t) ==
    /\ mounted
    /\ t \in timers
    /\ IF elapsed >= MaxElapsed
       THEN /\ stopRecording
            /\ elapsed' = MaxElapsed
       ELSE /\ elapsed' = elapsed + 1
            /\ UNCHANGED <<stage, bars, streamRef, rec, tracks, timers, rafPending, staleFx,
                           recognition, recognitionRef>>
    /\ UNCHANGED <<result, error, analysisSteps, isSubmitting, mediaRecorder,
                   audioChunks, timerRef, animFrameRef, stepsTimers, health,
                   selectedPatient, vocalResult, mounted, environment, transcript,
                   fusion, motor, app, resultParts, analysisEnv, nextId, abandoned>>

\* one animation frame of the sampler loop started for recording l
SamplerTick(l) ==
    /\ l \in rafPending
    /\ bars' = Set(bars, "live")
    /\ animFrameRef' = l
    /\ UNCHANGED <<stage, elapsed, result, error, analysisSteps, isSubmitting,
                   mediaRecorder, audioChunks, timerRef, streamRef, stepsTimers, health,
                   selectedPatient, vocalResult, mounted, speech, fusion, motor, app, resultParts, rec, tracks, timers, rafPending,
                   analysisEnv, nextId, abandoned, staleFx>>

\* reset: clearInterval, clearStepTimers, stopVisualizer, the tracks are
\* stopped, then recorder.stop(), then the state is cleared
reset ==
    /\ timers' = timers \ {timerRef}
    /\ stepsTimers' = {}
    /\ rafPending' = RafAfterStopVisualizer
    /\ bars' = Set(bars, "flat")
    /\ staleFx' = StaleReleases
    /\ tracks' = IF streamRef # 0 THEN [tracks EXCEPT ![streamRef] = "ended"] ELSE tracks
    /\ streamRef' = 0
    /\ rec' = IF mediaRecorder # 0 /\ rec[mediaRecorder].state = "recording"
              THEN [rec EXCEPT ![mediaRecorder] =
                        RecorderStop(@, "cancel", tracks'[mediaRecorder])]
              ELSE rec
    /\ stage' = Set(stage, "idle")
    /\ result' = Set(result, 0)
    /\ resultParts' = Set(resultParts, {})
    /\ error' = Set(error, "")
    /\ elapsed' = Set(elapsed, 0)
    /\ analysisSteps' = Set(analysisSteps, <<>>)
    /\ isSubmitting' = Set(isSubmitting, FALSE)
    /\ abandoned' = abandoned \cup requests
    /\ UNCHANGED <<mediaRecorder, audioChunks, timerRef, animFrameRef, health,
                   selectedPatient, vocalResult, mounted, speech, fusion, motor, app,
                   analysisEnv, nextId>>

\* the "Cancel" button of the recording stage
ClickCancel ==
    /\ mounted
    /\ stage = "recording"
    /\ reset

\* the "New Scan" button of the result stage
ClickNewScan ==
    /\ mounted
    /\ stage = "result"
    /\ result # 0
    /\ reset

\* ---------------------------------------------------------------- analysis
\* one timeout of the progress ladder; timeouts fire in the order of their delay
StepTimer(i) ==
    /\ i \in stepsTimers
    /\ \A j \in stepsTimers : i <= j
    /\ stepsTimers' = stepsTimers \ {i}
    /\ analysisSteps' = Set(analysisSteps, Append(analysisSteps, i))
    /\ UNCHANGED <<stage, elapsed, result, error, isSubmitting, bars, mediaRecorder,
                   audioChunks, timerRef, animFrameRef, streamRef, health,
                   selectedPatient, vocalResult, mounted, speech, fusion, motor, app, resultParts, rec, tracks, timers, rafPending,
                   analysisEnv, nextId, abandoned, staleFx>>

\* api.analyzeVoice resolves: the try block of runAnalysis after the await
AnalysisSuccess(q) ==
    /\ q \in requests
    /\ requests' = requests \ {q}
    /\ uploads' = [uploads EXCEPT ![q] = ""]
    /\ stepsTimers' = {}
    /\ analysisSteps' = Set(analysisSteps, AllSteps)
    /\ publishTimers' = publishTimers \cup {q}
    /\ UNCHANGED <<stage, elapsed, result, error, isSubmitting, bars, mediaRecorder,
                   audioChunks, timerRef, animFrameRef, streamRef, health,
                   selectedPatient, vocalResult, mounted, speech, fusion, motor, app, resultParts, rec, tracks, timers, rafPending,
                   nextId, abandoned, staleFx>>

\* the 400 ms timeout set on success
PublishResult(q) ==
    /\ q \in publishTimers
    /\ publishTimers' = publishTimers \ {q}
    /\ result' = Set(result, q)
    /\ vocalResult' = q
    /\ stage' = Set(stage, "result")
    /\ isSubmitting' = Set(isSubmitting, FALSE)
    /\ abandoned' = abandoned \ {q}
    \* the response may lack a sub-object
    /\ LET parts == responseParts IN
          /\ resultParts' = Set(resultParts, parts)
          \* FusionReport, when it is the page shown, takes the new prop
          /\ IF activePage = "fusion"
             THEN /\ \E v \in VocalSessions :
                        /\ v.present
                        /\ ("prediction" \notin parts) =>
                               (v.risk_score = Undefined /\ v.parkinson_prob = Undefined)
                        /\ fusionVocal' = v
                  /\ fusionLoading' = (fusionLoading \/ selectedPatient # 0)
                  /\ fusionView' = FusionReport(fusionVocal', fusionMotor, fusionImaging,
                                                fusionLoading')
                  /\ UNCHANGED <<fusionMotor, fusionImaging>>
             ELSE UNCHANGED fusion
    /\ UNCHANGED <<elapsed, error, analysisSteps, bars, refs, health, selectedPatient,
                   mounted, speech, motor, app, rec, tracks, timers, rafPending, requests,
                   uploads, nextId, staleFx>>

\* a catch block that sends the request again
AnalysisFailureResend(q, why) ==
    /\ q \in requests
    /\ requests' = requests
    /\ uploads' = uploads
    /\ stepsTimers' = {}
    /\ error' = Set(error, why)
    /\ stage' = Set(stage, "error")
    /\ isSubmitting' = Set(isSubmitting, FALSE)
    /\ abandoned' = abandoned \ {q}
    /\ UNCHANGED <<elapsed, result, analysisSteps, bars, mediaRecorder, audioChunks,
                   timerRef, animFrameRef, streamRef, health, selectedPatient, vocalResult,
                   mounted, speech, fusion, motor, app, resultParts, rec, tracks, timers, rafPending, publishTimers, nextId,
                   staleFx>>

\* api.analyzeVoice rejects: the catch block of runAnalysis
AnalysisFailure(q, why) ==
    /\ q \in requests
    /\ requests' = requests \ {q}
    /\ uploads' = [uploads EXCEPT ![q] = ""]
    /\ stepsTimers' = {}
    /\ error' = Set(error, why)
    /\ stage' = Set(stage, "error")
    /\ isSubmitting' = Set(isSubmitting, FALSE)
    /\ abandoned' = abandoned \ {q}
    /\ UNCHANGED <<elapsed, result, analysisSteps, bars, mediaRecorder, audioChunks,
                   timerRef, animFrameRef, streamRef, health, selectedPatient, vocalResult,
                   mounted, speech, fusion, motor, app, resultParts, rec, tracks, timers, rafPending, publishTimers, nextId,
                   staleFx>>

\* the request of api.analyzeVoice settles: request("POST", ..., form, true,
\* 90000) returns the data or throws
RequestSettles(q, resp) ==
    LET o == request(AnalysisTimeoutMs, resp) IN
    IF o = "ok" THEN AnalysisSuccess(q) ELSE AnalysisFailure(q, o)

\* the request of checkBackendHealth settles
HealthSettles(resp, flag) == ProbeResolve(HealthOutcomeOf(resp, flag))

\* ---------------------------------------------------------------- unmount
\* App shows another page (the dashboard) instead of Voice Scan: the cleanups
\* of the two effects run: clearInterval(interval) of the poll,
\* clearInterval(timerRef.current), clearStepTimers(), stopVisualizer()
Unmount ==
    /\ mounted
    /\ mounted' = FALSE
    /\ activePage' = "dashboard"
    /\ timers' = timers \ {timerRef}
    /\ stepsTimers' = {}
    /\ rafPending' = RafAfterStopVisualizer
    \* the component's state is discarded with it
    /\ stage' = "unmounted"
    /\ elapsed' = 0
    /\ result' = 0
    /\ resultParts' = {}
    /\ error' = ""
    /\ analysisSteps' = <<>>
    /\ isSubmitting' = FALSE
    /\ bars' = "flat"
    /\ backendStatus' = "checking"
    /\ transcript' = 0
    /\ UNCHANGED <<mediaRecorder, audioChunks, timerRef, animFrameRef, streamRef,
                   probes, lateProbes, selectedPatient, vocalResult, rec, tracks, analysisEnv, nextId,
                   abandoned, staleFx, environment, recognitionRef, recognition,
                   fusion, motor, motorResult>>

\* ---------------------------------------------------------------- speech recognition
\* recognition.onresult with a final result
RecognitionResult(r) ==
    /\ recognition[r] \in {"running", "stopping"}
    /\ transcript < MaxSegments
    /\ transcript' = Set(transcript, transcript + 1)
    \* after stop() the result of the audio already captured is the last one
    /\ recognition' = IF recognition[r] = "stopping"
                       THEN [recognition EXCEPT ![r] = "stopped"]
                       ELSE recognition
    /\ UNCHANGED <<uiState, refs, health, selectedPatient, vocalResult, mounted, rec, tracks,
                   timers, rafPending, analysisEnv, nextId, abandoned, staleFx,
                   environment, recognitionRef, fusion, motor, app, resultParts>>

\* the recognizer ends after stop() without a further result
RecognitionEnd(r) ==
    /\ recognition[r] = "stopping"
    /\ recognition' = [recognition EXCEPT ![r] = "stopped"]
    /\ UNCHANGED <<uiState, refs, health, selectedPatient, vocalResult, mounted, rec, tracks,
                   timers, rafPending, analysisEnv, nextId, abandoned, staleFx,
                   environment, recognitionRef, transcript, fusion, motor, app, resultParts>>

\* ---------------------------------------------------------------- fusion report
\* the page, outside FusionReport, is left alone by the fusion actions
FusionFrame ==
    UNCHANGED <<uiState, refs, health, selectedPatient, vocalResult, mounted, rec, tracks,
                timers, rafPending, analysisEnv, nextId, abandoned, staleFx, speech,
                motor, app, resultParts>>

\* the effect of FusionReport runs again: loadData up to the await
loadData ==
    /\ activePage = "fusion"
    /\ selectedPatient # 0
    /\ ~fusionLoading
    /\ fusionLoading' = TRUE
    /\ fusionView' = FusionReport(fusionVocal, fusionMotor, fusionImaging, TRUE)
    /\ UNCHANGED <<fusionVocal, fusionMotor, fusionImaging>>
    /\ FusionFrame

\* api.getPatient resolves: the newest session of each kind replaces the
\* state, an empty list leaves it; then setLoading(false)
LoadResolve(s, m, im) ==
    /\ activePage = "fusion"
    /\ selectedPatient # 0
    /\ fusionLoading
    /\ fusionVocal' = IF s.present THEN s ELSE fusionVocal
    /\ fusionMotor' = IF m # NoMotor THEN MotorRiskOfLabel(m) ELSE fusionMotor
    /\ fusionImaging' = IF im.present THEN im ELSE fusionImaging
    /\ fusionLoading' = FALSE
    /\ fusionView' = FusionReport(fusionVocal', fusionMotor', fusionImaging', FALSE)
    /\ FusionFrame

\* api.getPatient rejects: console.error, then setLoading(false)
LoadReject ==
    /\ activePage = "fusion"
    /\ selectedPatient # 0
    /\ fusionLoading
    /\ fusionLoading' = FALSE
    /\ fusionView' = FusionReport(fusionVocal, fusionMotor, fusionImaging, FALSE)
    /\ UNCHANGED <<fusionVocal, fusionMotor, fusionImaging>>
    /\ FusionFrame


\* ---------------------------------------------------------------- motor test
\* the page, outside MotorTest and the motor result of App, is left alone by
\* the actions of the motor test
MotorFrame ==
    UNCHANGED <<uiState, refs, health, selectedPatient, vocalResult, mounted, rec, tracks,
                timers, rafPending, analysisEnv, nextId, abandoned, staleFx, speech,
                fusion, resultParts, activePage>>

\* the "Begin Assessment" button of the intro stage
ClickBegin ==
    /\ activePage = "motor"
    /\ motorStage = "intro"
    /\ motorStage' = "ready"
    /\ UNCHANGED <<taps, timeLeft, metrics, tapGaps, tapInput, motorResult>>
    /\ MotorFrame

\* startTest, from the start button of the ready stage; g and d are the
\* rhythm and the input device the person then taps with
startTest(g, d) ==
    /\ activePage = "motor"
    /\ motorStage = "ready"
    /\ motorStage' = "testing"
    /\ timeLeft' = TestSeconds
    /\ taps' = <<>>
    /\ tapGaps' = g
    /\ tapInput' = d
    /\ UNCHANGED <<metrics, motorResult>>
    /\ MotorFrame

\* handleTap: appends Date.now() in the testing stage only
handleTap == IF motorStage # "testing" THEN taps ELSE Append(taps, StampAfter(taps, tapGaps, tapInput))

\* one tap on a tap zone (rendered in the testing stage): onMouseDown, or
\* onTouchStart with preventDefault()
Tap ==
    /\ activePage = "motor"
    /\ motorStage = "testing"
    /\ Len(taps) < MaxTaps
    /\ (tapInput = "double") => (Len(taps) % 2 = 0)
    /\ taps' = handleTap
    /\ UNCHANGED <<motorStage, timeLeft, metrics, tapGaps, tapInput, motorResult>>
    /\ MotorFrame

\* the compatibility mousedown the browser sends after a touch whose default
\* was not prevented: onMouseDown runs handleTap for the same tap
CompatMouseDown ==
    /\ activePage = "motor"
    /\ motorStage = "testing"
    /\ tapInput = "double"
    /\ Len(taps) % 2 = 1
    /\ Len(taps) < MaxTaps + 1
    /\ taps' = handleTap
    /\ UNCHANGED <<motorStage, timeLeft, metrics, tapGaps, tapInput, motorResult>>
    /\ MotorFrame

\* a countdown that goes on below zero and never computes
CountdownTickFree ==
    /\ activePage = "motor"
    /\ motorStage = "testing"
    /\ timeLeft' = timeLeft - 1
    /\ timeLeft > -2
    /\ UNCHANGED <<motorStage, metrics, motorResult, taps, tapGaps, tapInput>>
    /\ MotorFrame

\* the effect on [stage, timeLeft]: in testing with timeLeft > 0 a 1 s interval
\* decrements timeLeft; the effect of the render with timeLeft = 0 calls
\* calculateResults, which sets the result stage, the metrics and the motor
\* result of App
CountdownTick ==
    /\ activePage = "motor"
    /\ motorStage = "testing"
    /\ timeLeft > 0
    /\ timeLeft' = timeLeft - 1
    /\ IF timeLeft' = 0
       THEN /\ motorStage' = "result"
            /\ metrics' = calculateResults(taps)
            /\ motorResult' = calculateResults(taps)
       ELSE UNCHANGED <<motorStage, metrics, motorResult>>
    /\ UNCHANGED <<taps, tapGaps, tapInput>>
    /\ MotorFrame

\* the "Try Again" button of the error view
ClickTryAgain ==
    /\ activePage = "motor"
    /\ motorStage = "result"
    /\ metrics.kind = "error"
    /\ motorStage' = "intro"
    /\ UNCHANGED <<taps, timeLeft, metrics, tapGaps, tapInput, motorResult>>
    /\ MotorFrame

\* the "Repeat Test" button of the result view
ClickRepeatTest ==
    /\ activePage = "motor"
    /\ motorStage = "result"
    /\ metrics.kind = "metrics"
    /\ motorStage' = "intro"
    /\ UNCHANGED <<taps, timeLeft, metrics, tapGaps, tapInput, motorResult>>
    /\ MotorFrame

\* ---------------------------------------------------------------- navigation
\* App.navigate(p) between the pages other than Voice Scan: the page shown is
\* unmounted (its state is discarded, the countdown interval cleared) and p is
\* mounted with its initial state. FusionReport starts from the props,
\* and with an active patient its effect calls loadData.
Navigate(p) ==
    /\ activePage # "scan"
    /\ activePage # p
    /\ activePage' = p
    /\ motorStage' = "intro"
    /\ taps' = <<>>
    /\ timeLeft' = TestSeconds
    /\ metrics' = NoMetrics
    /\ tapGaps' = <<4, 4>>
    /\ tapInput' = "single"
    /\ IF p = "fusion"
       THEN /\ \E v \in VocalSessions :
                  /\ v.present <=> (vocalResult # 0)
                  /\ fusionVocal' = v
            /\ fusionMotor' = MotorProp(motorResult)
            /\ fusionImaging' = NoImaging
            /\ fusionLoading' = IF selectedPatient # 0 THEN TRUE
                                ELSE ~(fusionVocal'.present /\ fusionMotor' # NoMotor)
            /\ fusionView' = FusionReport(fusionVocal', fusionMotor', NoImaging, fusionLoading')
       ELSE /\ fusionVocal' = NoVocal
            /\ fusionMotor' = NoMotor
            /\ fusionImaging' = NoImaging
            /\ fusionLoading' = TRUE
            /\ fusionView' = FusionReport(NoVocal, NoMotor, NoImaging, TRUE)
    /\ UNCHANGED <<uiState, refs, health, selectedPatient, vocalResult, mounted, rec, tracks,
                   timers, rafPending, analysisEnv, nextId, abandoned, staleFx, speech,
                   resultParts, motorResult>>

\* ---------------------------------------------------------------- specifications
\* start, stop, cancel, the recorder's events and the analysis request
Session ==
    \/ \E o \in HealthOutcomes : ProbeResolve(o)
    \/ \E p \in Patients : SelectPatient(p)
    \/ ClickStart
    \/ \E r \in RecIds : GumResolve(r)
    \/ \E r \in RecIds, e \in MicFailures : GumReject(r, e)
    \/ \E r \in RecIds, s \in ChunkSizes : DataAvailable(r, s)
    \/ ClickStop
    \/ ClickCancel
    \/ ClickNewScan
    \/ \E r \in RecIds : RecorderError(r)
    \/ \E r \in RecIds, s \in ChunkSizes : OnStop(r, s)
    \/ \E q \in RecIds : AnalysisSuccess(q)
    \/ \E q \in RecIds : PublishResult(q)
    \/ \E q \in RecIds, why \in AnalysisFailures : AnalysisFailure(q, why)

\* the periodic health poll and the manual retry
Polling ==
    \/ PollTick
    \/ ClickRetry

\* the 1 s tick of the recording
Ticking == \E t \in RecIds : Tick(t)

\* the first seconds of the tick
EarlyTicking == \E t \in RecIds : elapsed < MaxEarly /\ Tick(t)

\* the animation-frame sampler
Sampling == \E l \in RecIds : SamplerTick(l)

\* the progress ladder
Ladder == \E i \in StepIds : StepTimer(i)

\* startRecording called as the operation start() of the capture session,
\* whatever the start button shows
StartCall ==
    /\ mounted
    /\ stage \in {"idle", "error"}
    /\ nextId <= MaxRec
    /\ startRecording

\* the speech recognizer's events
Recognizing ==
    \/ \E r \in RecIds : RecognitionResult(r)
    \/ \E r \in RecIds : RecognitionEnd(r)

\* the Fusion Report page, with a patient active
Fusing ==
    \/ loadData
    \/ \E s \in VocalSessions, m \in MotorSessions, im \in ImagingSessions : LoadResolve(s, m, im)
    \/ LoadReject

\* the Motor Test page
Tapping ==
    \/ ClickBegin
    \/ \E g \in TapRhythms, d \in TapInputs : startTest(g, d)
    \/ Tap
    \/ CompatMouseDown
    \/ CountdownTick
    \/ ClickTryAgain
    \/ ClickRepeatTest

\* the sidebar
Navigating == \E p \in {"dashboard", "motor", "fusion"} : Navigate(p)

\* the Fusion Report page, for a patient whose server record has at most a
\* motor session and one voice session
FusingLatest ==
    \/ loadData
    \/ \E s \in {NoVocal, [present |-> TRUE, risk_score |-> 80, parkinson_prob |-> Undefined]},
          m \in MotorSessions : LoadResolve(s, m, NoImaging)
    \/ LoadReject

\* The whole application.
Next ==
    \/ Session \/ Polling \/ Ticking \/ Sampling \/ Ladder \/ Recognizing \/ Unmount
    \/ Navigating \/ Tapping \/ Fusing

Spec == Init /\ [][Next]_vars

\* The product of all the timers of the page is large; the properties are
\* checked per component, each under the actions it depends on.
\* The capture session and its analysis request, over the first seconds of a
\* recording, with the page left at any time.
SpecSession == InitNoSpeech /\ [][Session \/ EarlyTicking \/ Unmount]_vars

\* The capture session with the tick followed up to its ceiling.
SpecTick == InitNoSpeech /\ [][Session \/ Ticking]_vars

\* The capture session with start() also called directly.
SpecStart == InitNoSpeech /\ [][Session \/ EarlyTicking \/ StartCall]_vars

\* The capture session with the tick followed up to its ceiling; an active
\* interval timer keeps firing.
SpecTickFair == SpecTick /\ WF_vars(Ticking)

\* The capture session with the animation-frame sampler.
SpecSampling == InitNoSpeech /\ [][Session \/ EarlyTicking \/ Sampling]_vars

\* The capture session with the speech recognizer's events.
SpecSpeech == InitComplete /\ [][Session \/ EarlyTicking \/ Recognizing]_vars

\* A patient is chosen on Voice Scan, then the Fusion Report page is opened.
SpecFusion ==
    InitNoSpeech /\ [][(\E p \in Patients : SelectPatient(p)) \/ Unmount \/ Navigating \/ Fusing]_vars

\* The Motor Test page followed tap by tap.
SpecMotor == InitNoSpeech /\ [][Unmount \/ Navigating \/ Tapping]_vars

\* The same; the countdown interval keeps firing.
SpecMotorFair == SpecMotor /\ WF_vars(CountdownTick)

\* tap counts around the thresholds of the speed: 2.5 /s is 37.5 taps,
\* 4 /s is 60 taps
CalcCounts == {4, 5, 6, 12, 20, 30, 36, 37, 38, 39, 45, 52, 58, 59, 60, 61}

\* The last second of a test window on the Motor Test page, for any tap list
\* a window can have collected.
InitCalc ==
    /\ Fresh
    /\ stage = "unmounted"
    /\ mounted = FALSE
    /\ probes = 0
    /\ hasSpeechRecognition = FALSE
    /\ responseParts = AnalysisParts
    /\ supportedMimes = {2, 3}
    /\ defaultMime = "audio/webm;codecs=opus"
    /\ activePage = "motor"
    /\ motorStage = "testing"
    /\ timeLeft = 1
    /\ tapGaps \in TapRhythms
    /\ tapInput \in TapInputs
    /\ \E n \in CalcCounts : taps = Series(tapGaps, tapInput, n)

\* calculateResults applied to the tap lists of InitCalc.
SpecCalc == InitCalc /\ [][CountdownTick \/ ClickTryAgain \/ ClickRepeatTest]_vars

\* Motor tests and the Fusion Report page in one session of the application.
SpecReport ==
    InitNoSpeech /\ [][(\E p \in Patients : SelectPatient(p)) \/ Unmount \/ Navigating
                         \/ Tapping \/ FusingLatest]_vars

\* the capture session used one recording at a time: Start is clicked only
\* when no stream is open or being acquired and no recorder is still stopping
OneAtATime ==
    /\ Session
    /\ (nextId' # nextId) =>
          /\ \A r \in RecIds : rec[r].state \notin {"acquiring", "recording"}
          /\ \A r \in RecIds : rec[r].stop = NoStop
          /\ requests = {}
          /\ publishTimers = {}

\* The capture session, one recording at a time, with the health poll and the
\* retry button.
SpecPolling == InitNoSpeech /\ [][OneAtATime \/ EarlyTicking \/ Polling]_vars

\* The same; the /health request always ends (it has a 4 s timeout).
SpecPollingFair == SpecPolling /\ WF_vars(\E o \in HealthOutcomes : ProbeResolve(o))

\* The capture session with a backend whose responses may lack a sub-object.
SpecResult == InitAnyResponse /\ [][Session \/ EarlyTicking \/ Unmount]_vars

\* the steps of the capture session that lead to a request, cancel it or
\* leave its outcome
Calling ==
    \/ \E p \in Patients : SelectPatient(p)
    \/ ClickStart
    \/ \E r \in RecIds : GumResolve(r)
    \/ \E r \in RecIds : DataAvailable(r, 1000)
    \/ ClickStop
    \/ ClickCancel
    \/ ClickNewScan
    \/ \E r \in RecIds, s \in ChunkSizes : OnStop(r, s)
    \/ \E q \in RecIds : PublishResult(q)

\* the requests settle as the network and the abort timers decide
Settling ==
    \/ \E q \in RecIds, resp \in Responses : RequestSettles(q, resp)
    \/ \E resp \in Responses, flag \in HealthFlags : HealthSettles(resp, flag)

\* The capture session with the requests followed through request().
SpecRequest == InitNoSpeech /\ [][Calling \/ Settling \/ EarlyTicking \/ Unmount]_vars

\* recordings made and uploaded one after the other, with a ready backend
Uploading ==
    \/ ProbeResolve("ready")
    \/ \E p \in Patients : SelectPatient(p)
    \/ ClickStart
    \/ \E r \in RecIds : GumResolve(r)
    \/ \E r \in RecIds : DataAvailable(r, 1000)
    \/ ClickStop
    \/ \E r \in RecIds, s \in ChunkSizes : OnStop(r, s)
    \/ \E q \in RecIds : AnalysisSuccess(q)

\* Recordings and their uploads in any runtime.
SpecMime == InitMime /\ [][Uploading \/ EarlyTicking]_vars

\* The capture session with the tick followed up to its ceiling; an active
\* interval timer keeps firing, a queued stop task runs, every request
\* resolves, fails or times out, and the 400 ms timeout of a result fires.
SpecTickSettle ==
    /\ SpecTick
    /\ WF_vars(Ticking)
    /\ WF_vars(\E r \in RecIds, s \in ChunkSizes : OnStop(r, s))
    /\ WF_vars(\E q \in RecIds : AnalysisSuccess(q)
                  \/ \E why \in AnalysisFailures : AnalysisFailure(q, why))
    /\ WF_vars(\E q \in RecIds : PublishResult(q))

\* two patients of the patient list
Subjects == {1, 2}

\* the Fusion Report page with a server on which patient 2 has no voice
\* session and no imaging session stored
FusingUnscanned ==
    \/ loadData
    \/ \E s \in {NoVocal, [present |-> TRUE, risk_score |-> 80, parkinson_prob |-> Undefined]},
          m \in MotorSessions :
            /\ selectedPatient = 2 => s = NoVocal
            /\ LoadResolve(s, m, NoImaging)
    \/ LoadReject

\* Voice scans with the active patient changed at any time, then the Fusion
\* Report.
SpecSubjects ==
    InitNoSpeech /\ [][Uploading \/ (\E q \in RecIds : PublishResult(q))
                         \/ (\E p \in Subjects : SelectPatient(p))
                         \/ EarlyTicking \/ Unmount \/ Navigating \/ FusingUnscanned]_vars

\* The capture session with the progress ladder of the analysis.
SpecLadder == InitNoSpeech /\ [][Session \/ EarlyTicking \/ Ladder]_vars


\* ---------------------------------------------------------------- properties
LiveStreams == {r \in RecIds : tracks[r] = "live"}
Acquiring == {r \in RecIds : rec[r].state = "acquiring"}
\* a step in which api.analyzeVoice is called for recording r
Issues(r) == r \notin requests /\ r \in requests'
\* a step in which stopRecording runs
StopInvoked == ClickStop \/ (elapsed >= MaxElapsed /\ \E t \in RecIds : Tick(t))
\* a step in which reset runs
ResetInvoked == ClickCancel \/ ClickNewScan

\* C1: a recording ended by cancel (reset during Recording) never gets an
\* analysis request: no step issues a request for a recorder whose queued stop
\* came from reset.
C1_CancelledNeverAnalysed ==
    [][\A r \in RecIds : rec[r].stop.by = "cancel" => ~Issues(r)]_vars

\* C2: the resolution (success, its delayed publication, or failure) of a
\* request that was in flight when reset ran changes neither the stage, the
\* result, the error, the progress steps nor the published vocal result.
C2_AbandonedResolutionIgnored ==
    [][\A q \in abandoned :
          (\/ AnalysisSuccess(q)
           \/ PublishResult(q)
           \/ \E why \in AnalysisFailures : AnalysisFailure(q, why))
          => UNCHANGED <<stage, result, error, analysisSteps, vocalResult>>]_vars

\* C3: at most one microphone stream is open or being acquired at any time.
C3_OneStream == Cardinality(LiveStreams) + Cardinality(Acquiring) <= 1

\* C4: outside Recording no microphone track is live.
C4_ReleasedOutsideRecording == stage # "recording" => LiveStreams = {}

C6_FlushThenTracksThenAnalysis ==
    \A r \in RecIds :
        /\ rec[r].stop.by = "stop" => rec[r].stop.trk = "live"
        /\ r \in requests => (rec[r].state = "inactive" /\ rec[r].stop = NoStop)

\* C6 witness: a recording ended by stop() is being analysed, its tracks stopped.
C6_Witness ==
    \E r \in RecIds :
        /\ stage = "analyzing"
        /\ r \in requests
        /\ tracks[r] = "ended"
        /\ audioChunks # <<>>

\* C7: stopRecording invoked outside Recording leaves the stage unchanged, asks
\* no recorder to stop, stops no track and issues no request.
C7_StopOnlyFromRecording ==
    [][(StopInvoked /\ stage # "recording") =>
          /\ stage' = stage
          /\ rec' = rec
          /\ tracks' = tracks
          /\ requests' = requests]_vars

\* C8: when the stop event finds a blob smaller than 1000 bytes the session
\* goes to the error stage with the too-short error and no request is issued.
C8_ShortBlobIsError ==
    [][\A r \in RecIds, s \in ChunkSizes :
          (OnStop(r, s) /\ BlobSize(audioChunks') < MinBlobSize) =>
              /\ mounted => (stage' = "error" /\ error' = "EmptyRecording")
              /\ requests' = requests]_vars

\* C8 witness: a non-empty blob below the threshold was finalized and refused.
C8_Witness ==
    /\ stage = "error"
    /\ error = "EmptyRecording"
    /\ audioChunks # <<>>
    /\ BlobSize(audioChunks) < MinBlobSize
    /\ requests = {}
    /\ \E r \in RecIds : rec[r].state = "inactive" /\ rec[r].stop = NoStop

\* C9: a recording ended while elapsed < 2 never gets an analysis request.
C9_EarlyEndNeverAnalysed ==
    [][\A r \in RecIds : rec[r].stop.early => ~Issues(r)]_vars

\* C10: reset releases no resource a second time: every release call it makes
\* is on a handle that is still live.
C10_ResetReleasesOnce ==
    [][ResetInvoked => staleFx' = {}]_vars

\* C11: a recording starts with elapsed = 0; while the session stays in
\* Recording elapsed changes only in a tick and then by +1; elapsed never
\* exceeds 30; Recording is always eventually left.
C11_ElapsedByTickToCeiling ==
    /\ [][(stage # "recording" /\ stage' = "recording") => elapsed' = 0]_vars
    /\ [][(stage = "recording" /\ stage' = "recording" /\ elapsed' # elapsed)
            => (Ticking /\ elapsed' = elapsed + 1)]_vars
    /\ [](elapsed <= MaxElapsed)
    /\ ((stage = "recording") ~> (stage # "recording"))

\* C12: outside Recording no interval timer of a recording is active and no
\* tick runs.
C12_NoTickOutsideRecording ==
    /\ [](stage # "recording" => timers = {})
    /\ [][Ticking => stage = "recording"]_vars

\* C13: outside Recording no animation frame of the sampler is pending and
\* no sampler frame runs (the bars are not updated from the stream).
C13_NoSamplerOutsideRecording ==
    /\ [](stage # "recording" => rafPending = {})
    /\ [][Sampling => stage = "recording"]_vars

\* C14: outside Recording no started recognizer is still listening, and the
\* transcript receives no segment.
C14_RecognizerStoppedWithRecording ==
    /\ [](stage # "recording" => \A r \in RecIds : recognition[r] # "running")
    /\ [][(Recognizing /\ transcript' # transcript) => stage = "recording"]_vars

\* C15: a chunk is appended to the chunk list only while the stage is
\* Recording.
C15_ChunksOnlyWhileRecording ==
    [][Len(audioChunks') > Len(audioChunks) => stage = "recording"]_vars

\* C16: the fused score is the weighted sum of the domain risks rounded to the
\* nearest integer (ties upwards), with weights 0.45 / 0.55 without imaging
\* and 0.30 / 0.30 / 0.40 with it, and motor risk 90 / 60 / 20 for
\* High / Medium / Low; vocal 80 with motor High gives 86, and vocal 0, motor
\* Low, imaging 0 give 6.
C16_FusedScoreWeights ==
    fusionView.kind = "report" =>
        LET v == fusionView.vocalRisk
            m == fusionView.motorRisk
            i == fusionView.imageRisk
            x == IF fusionImaging.present THEN 30 * v + 30 * m + 40 * i
                 ELSE 45 * v + 55 * m
            n == fusionView.fusedScore
        IN /\ m = (CASE fusionMotor = "High" -> 90
                     [] fusionMotor = "Medium" -> 60
                     [] fusionMotor = "Low" -> 20)
           /\ 100 * n <= x + 50
           /\ x + 50 < 100 * (n + 1)
           /\ (~fusionImaging.present /\ v = 80 /\ fusionMotor = "High") => n = 86
           /\ (fusionImaging.present /\ v = 0 /\ fusionMotor = "Low" /\ i = 0) => n = 6

\* C16 witness: the two-domain fusion of vocal 80 and motor High shows 86.
C16_Witness ==
    /\ fusionView.kind = "report"
    /\ fusionView.domains = 2
    /\ fusionView.vocalRisk = 80
    /\ fusionMotor = "High"
    /\ fusionView.fusedScore = 86

\* C17: the label is High Clinical Suspicion above 85, Moderate Concern
\* above 60, Prodromal / Early Signs above 40 in three-domain fusion and
\* above 35 in two-domain fusion, Healthy otherwise.
C17_LabelThresholds ==
    fusionView.kind = "report" =>
        fusionView.finalLabel =
            (IF fusionView.fusedScore > 85 THEN "High Clinical Suspicion"
             ELSE IF fusionView.fusedScore > 60 THEN "Moderate Concern"
             ELSE IF fusionView.fusedScore > (IF fusionView.domains = 3 THEN 40 ELSE 35)
                  THEN "Prodromal / Early Signs"
             ELSE "Healthy")

\* C18: every domain risk entering the fusion and the fused score lie in
\* 0..100.
C18_RisksInRange ==
    fusionView.kind = "report" =>
        /\ fusionView.vocalRisk \in 0..100
        /\ fusionView.motorRisk \in 0..100
        /\ fusionView.imageRisk \in 0..100
        /\ fusionView.fusedScore \in 0..100

\* C19: with an imaging result carrying an SBR the imaging risk is
\* (1 - SBR) * 100 and the three-domain fusion is used.
C19_ImagingRiskFromSbr ==
    (fusionView.kind = "report" /\ fusionImaging.present /\ fusionImaging.sbr # Undefined) =>
        /\ fusionView.imageRisk = 100 - fusionImaging.sbr
        /\ fusionView.domains = 3

C26_StatusFromProbe ==
    [][\A o \in HealthOutcomes :
          (ProbeResolve(o) /\ mounted) =>
              backendStatus' = (IF o \in {"neterr", "timeout", "httperr"} THEN "offline"
                                ELSE IF o = "notready" THEN "no_model"
                                ELSE "online")]_vars

\* C27: the status is Checking at initialization with one probe in flight;
\* a poll tick is possible in every capture stage and sets Checking; a poll
\* tick and the end of a probe change nothing of the capture session; a probe
\* ends in Online, Offline or ModelNotReady; Checking is always eventually
\* left for one of the three.
C27_PollOnlyTouchesStatus ==
    /\ (backendStatus = "checking" /\ probes = 1)
    /\ []((mounted /\ probes < MaxProbes) => ENABLED PollTick)
    /\ [][PollTick => backendStatus' = "checking"]_vars
    /\ [][(PollTick \/ \E o \in HealthOutcomes : ProbeResolve(o)) =>
            UNCHANGED <<uiState, refs, rec, tracks, timers, rafPending, analysisEnv,
                        selectedPatient, vocalResult>>]_vars
    /\ [][(\E o \in HealthOutcomes : ProbeResolve(o)) =>
            backendStatus' \in {"online", "offline", "no_model"}]_vars
    /\ ((backendStatus = "checking") ~> (backendStatus \in {"online", "offline", "no_model"}))

\* C27 witness: a poll tick ran during a recording and its probe is in flight.
C27_Witness ==
    /\ stage = "recording"
    /\ elapsed > 0
    /\ backendStatus = "checking"
    /\ probes = 1
    /\ LiveStreams # {}

\* C28: a request is issued for a recording only by the one stop task of its
\* recorder, a recorder that has ended and whose stop task has run never
\* changes again, and a failed request is removed without being sent again,
\* leaving the error stage with the failure as the error.
C28_OneRequestPerRecording ==
    /\ [][\A r \in RecIds :
            Issues(r) => /\ rec[r].state = "inactive"
                         /\ rec[r].stop # NoStop
                         /\ rec'[r].stop = NoStop]_vars
    /\ [][\A r \in RecIds :
            (rec[r].state \in {"inactive", "failed"} /\ rec[r].stop = NoStop)
                => rec'[r] = rec[r]]_vars
    /\ [][\A q \in RecIds, why \in AnalysisFailures :
            AnalysisFailure(q, why) =>
                /\ requests' = requests \ {q}
                /\ mounted => (stage' = "error" /\ error' = why)]_vars

\* C28 witness: the request of a finalized recording failed; nothing is in flight.
C28_Witness ==
    /\ stage = "error"
    /\ error \in AnalysisFailures
    /\ requests = {}
    /\ publishTimers = {}
    /\ \E r \in RecIds : rec[r].state = "inactive" /\ rec[r].stop = NoStop /\ rec[r].patient # 0

\* C29: a result that arrives marks every step complete at once, whatever the
\* ladder has revealed, and its publication puts the session in Result; with
\* every step revealed and a request still in flight the session leaves
\* analyzing only when a request fails or a result is published.
C29_LadderNeverGates ==
    /\ [][\A q \in RecIds :
            (AnalysisSuccess(q) /\ mounted) =>
                /\ analysisSteps' = AllSteps
                /\ stepsTimers' = {}
                /\ q \in publishTimers']_vars
    /\ [][\A q \in RecIds : (PublishResult(q) /\ mounted) => stage' = "result"]_vars
    /\ [][(stage = "analyzing" /\ requests # {} /\ analysisSteps = AllSteps
              /\ stage' # "analyzing")
            => \/ \E q \in RecIds, why \in AnalysisFailures : AnalysisFailure(q, why)
               \/ \E q \in RecIds : PublishResult(q)]_vars

\* C21: whenever the Fusion Report shows a fused score while App holds the
\* result of a motor test of this session, the motor risk entering the
\* fusion is the one of that result.
C21_FusionUsesLatest ==
    (activePage = "fusion" /\ fusionView.kind = "report" /\ motorResult.kind = "metrics") =>
        fusionView.motorRisk = (CASE motorResult.risk = "High" -> 90
                                  [] motorResult.risk = "Medium" -> 60
                                  [] motorResult.risk = "Low" -> 20)

\* C22: for a window that ended with at least 5 taps the bucket is the one of
\* the reference rule on the unrounded statistics, with taps per second =
\* taps / 15: High if CV% > 35 or taps / 15 < 2.5, else Medium if CV% > 20 or
\* taps / 15 < 4, else Low.
C22_RiskBucketFromStatistics ==
    (motorStage = "result" /\ Len(taps) >= 5) =>
        LET x == Intervals(taps)
            n == Len(x)
            S == Sum(x)
            D == n * SumSq(x) - S * S
            cvOver35 == S > 0 /\ 400 * D > 49 * S * S
            cvOver20 == S > 0 /\ 25 * D > S * S
            \* taps / 15 < 5 / 2 and taps / 15 < 4
            slow == 2 * Len(taps) < 75
            medium == Len(taps) < 60
        IN metrics.risk = (IF cvOver35 \/ slow THEN "High"
                           ELSE IF cvOver20 \/ medium THEN "Medium"
                           ELSE "Low")

\* C23: a window that ends with fewer than 5 taps gives the error result:
\* no tap count, speed, CV, bucket or stage, in the metrics shown and in the
\* motor result of App; from that result the test goes on only to Intro,
\* by Try Again.
C23_TooFewTapsIsError ==
    /\ []((motorStage = "result" /\ Len(taps) < 5) =>
            /\ metrics.kind = "error"
            /\ metrics.totalTaps = Undefined
            /\ metrics.speed = Undefined
            /\ metrics.irregularity = Undefined
            /\ metrics.risk = ""
            /\ metrics.hy_guess = ""
            /\ motorResult = metrics)
    /\ [][(motorStage = "result" /\ metrics.kind = "error" /\ activePage' = activePage
             /\ motorStage' # motorStage)
            => (ClickTryAgain /\ motorStage' = "intro")]_vars

\* C23 witness: a window ended with four taps and the error result is shown
\* and shared.
C23_Witness ==
    /\ motorStage = "result"
    /\ Len(taps) = 4
    /\ metrics.kind = "error"
    /\ motorResult.kind = "error"

\* C24: a window starts with 15 seconds left; while the test is in Testing
\* the time left changes only by a countdown tick and then by -1; it is never
\* below 0; the metrics change only in the step that ends a window, which
\* computes them from the taps of that window, shares them and enters
\* Result, and Result is entered in no other way; Testing always eventually
\* ends in Result unless the page is left.
C24_CountdownToResult ==
    /\ [][(motorStage # "testing" /\ motorStage' = "testing") => timeLeft' = 15]_vars
    /\ [][(motorStage = "testing" /\ activePage' = activePage /\ timeLeft' # timeLeft)
            => (CountdownTick /\ timeLeft' = timeLeft - 1)]_vars
    /\ [](timeLeft >= 0)
    /\ [][((metrics' # metrics \/ (motorStage # "result" /\ motorStage' = "result"))
             /\ activePage' = activePage)
            => /\ motorStage = "testing"
               /\ timeLeft = 1
               /\ taps' = taps
               /\ motorStage' = "result"
               /\ metrics' = calculateResults(taps)
               /\ motorResult' = metrics']_vars
    /\ ((motorStage = "testing") ~> (motorStage = "result" \/ activePage # "motor"))

\* C24 witness: a window with five taps or more ran down to 0 and its
\* statistics are shown.
C24_Witness ==
    /\ motorStage = "result"
    /\ timeLeft = 0
    /\ Len(taps) >= 5
    /\ metrics.kind = "metrics"
    /\ metrics.totalTaps = Len(taps)
    /\ motorResult = metrics

\* C25: the tap list grows only in Testing, only by a tap input and then by
\* exactly one entry; outside Testing it does not change; a window starts
\* with the empty list.
C25_OneEntryPerTap ==
    /\ [][(Len(taps') > Len(taps)) =>
            (motorStage = "testing" /\ Tap /\ Len(taps') = Len(taps) + 1)]_vars
    /\ [][(motorStage # "testing" /\ motorStage' # "testing") => taps' \in {taps, <<>>}]_vars
    /\ [][(motorStage # "testing" /\ motorStage' = "testing") => taps' = <<>>]_vars

\* C30: a published result puts the session in Result, and a result that
\* lacks prediction, biomarkers or clinical guidance is shown with the
\* partial-data alert.
C30_PartialResultFlagged ==
    /\ [][\A q \in RecIds : (PublishResult(q) /\ mounted) => stage' = "result"]_vars
    /\ []((stage = "result" /\ result # 0 /\ resultParts # AnalysisParts)
            => PartialDataAlert(resultParts))

\* C31: when getUserMedia rejects, the error is PermissionDenied for a denied
\* permission, DeviceNotFound for a missing device and DeviceError for any
\* other failure, three different errors; the step leaves the stage as it
\* is, and the failed acquisition never has a live track, a started
\* recorder, a tick timer, a sampler frame or a recognizer.
C31_MicFailureReported ==
    /\ [][\A r \in RecIds, e \in MicFailures :
            (GumReject(r, e) /\ mounted) =>
                /\ error' = (CASE e \in {"NotAllowedError", "PermissionDeniedError"}
                                     -> "PermissionDenied"
                               [] e = "NotFoundError" -> "DeviceNotFound"
                               [] OTHER -> "DeviceError")
                /\ stage' = stage
                /\ rec'[r].state = "failed"]_vars
    /\ [](\A r \in RecIds :
            rec[r].state = "failed" =>
                /\ tracks[r] = "none"
                /\ rec[r].stop = NoStop
                /\ r \notin timers
                /\ r \notin rafPending
                /\ recognition[r] = "none"
                /\ mediaRecorder # r
                /\ streamRef # r)

\* C31 witness: a missing device was reported; nothing of the page is active.
C31_Witness ==
    /\ \E r \in RecIds : rec[r].state = "failed"
    /\ error = "DeviceNotFound"
    /\ stage = "idle"
    /\ LiveStreams = {}
    /\ timers = {}
    /\ rafPending = {}

\* C32: an analysis request whose response has not come when its timeout
\* expires ends in the error stage with the Timeout reason; a refused
\* connection and an error response that come before it end with two other
\* reasons; the health probe times out on its own, shorter timeout: a response
\* later than that timeout makes the probe fail (Offline), while the same
\* delay does not time out an analysis request.
C32_TimeoutDistinct ==
    /\ [][\A q \in RecIds, resp \in Responses :
            (RequestSettles(q, resp) /\ mounted) =>
                /\ resp.at > AnalysisTimeoutMs => (stage' = "error" /\ error' = "Timeout")
                /\ (resp.at < AnalysisTimeoutMs /\ resp.kind = "refused")
                      => (stage' = "error" /\ error' \notin {"Timeout", "Http"})
                /\ (resp.at < AnalysisTimeoutMs /\ resp.kind = "http")
                      => (stage' = "error" /\ error' \notin {"Timeout", "Network"})
                /\ (resp.at < AnalysisTimeoutMs /\ resp.kind = "ok")
                      => (q \in publishTimers' /\ error' = error)]_vars
    /\ [][\A resp \in Responses, flag \in HealthFlags :
            (HealthSettles(resp, flag) /\ mounted /\ resp.at > HealthTimeoutMs)
                => backendStatus' = "offline"]_vars
    /\ [](HealthTimeoutMs < AnalysisTimeoutMs)

\* C32 witness: a request timed out and the session shows the Timeout error.
C32_Witness ==
    /\ stage = "error"
    /\ error = "Timeout"
    /\ isSubmitting = FALSE
    /\ requests = {}
    /\ \E r \in RecIds : rec[r].state = "inactive" /\ rec[r].patient # 0 /\ tracks[r] = "ended"

\* C33: a recorder is created with the first entry of the list audio/mp4,
\* audio/webm;codecs=opus, audio/webm, audio/ogg;codecs=opus, audio/ogg,
\* audio/wav that the runtime supports, and without a type (the runtime's
\* default) when it supports none; the file name of the upload has the
\* extension of the blob's type (m4a for mp4, ogg for ogg, wav for wav, webm
\* for webm); a runtime that supports only audio/wav records audio/wav and
\* uploads with the extension wav.
C33_MimeNegotiated ==
    \A r \in RecIds :
        rec[r].state \in {"recording", "inactive"} =>
            LET list == <<"audio/mp4", "audio/webm;codecs=opus", "audio/webm",
                          "audio/ogg;codecs=opus", "audio/ogg", "audio/wav">>
                blobType == IF rec[r].type # "" THEN rec[r].type ELSE "audio/webm"
            IN /\ \A i \in 1..6 :
                     (i \in supportedMimes /\ \A j \in 1..(i - 1) : j \notin supportedMimes)
                         => (rec[r].mimeType = list[i] /\ rec[r].type = list[i])
               /\ supportedMimes = {} => (rec[r].mimeType = "" /\ rec[r].type = defaultMime)
               /\ r \in requests =>
                     uploads[r] =
                         (CASE blobType = "audio/mp4" -> "m4a"
                            [] blobType \in {"audio/ogg;codecs=opus", "audio/ogg"} -> "ogg"
                            [] blobType = "audio/wav" -> "wav"
                            [] blobType \in {"audio/webm;codecs=opus", "audio/webm"} -> "webm")
               /\ supportedMimes = {6} =>
                     /\ rec[r].mimeType = "audio/wav"
                     /\ r \in requests => uploads[r] = "wav"

\* C33 witness: a runtime that supports only audio/wav has uploaded a
\* recording of type audio/wav as a .wav file.
C33_Witness ==
    /\ supportedMimes = {6}
    /\ \E r \in requests : rec[r].type = "audio/wav" /\ uploads[r] = "wav"

\* the revealed steps are the first k steps, in order
IsPrefix(steps) == \A i \in 1..Len(steps) : steps[i] = i - 1

\* C34: the revealed steps are always a prefix 0..k-1 of the step order,
\* without duplicates, and grow by one step when a ladder timeout fires;
\* a ladder timeout is pending only while a request that no reset has
\* abandoned is in flight; the result of a request that was in flight when
\* reset ran reveals nothing.
C34_StepsArePrefix ==
    /\ [](Len(analysisSteps) <= NumSteps /\ IsPrefix(analysisSteps))
    /\ [][Ladder => (mounted => analysisSteps' = Append(analysisSteps, Len(analysisSteps)))]_vars
    /\ [](stepsTimers # {} => requests \ abandoned # {})
    /\ [][\A q \in abandoned : AnalysisSuccess(q) => analysisSteps' = analysisSteps]_vars

\* a request is outstanding (or its result waits for its 400 ms timeout), or
\* the stop task of a recorder is queued
InFlight ==
    \/ requests # {}
    \/ publishTimers # {}
    \/ \E r \in RecIds : rec[r].stop # NoStop

\* C35: whenever the stage is analyzing a request is outstanding or a
\* recorder's stop task is queued, and, every request ending and every
\* queued task running, analyzing always eventually ends in result or error.
C35_AnalyzingHasWorkInFlight ==
    /\ [](stage = "analyzing" => InFlight)
    /\ ((stage = "analyzing") ~> (stage \in {"result", "error"}))

\* C36: when the motor result the Fusion Report holds is the error result of
\* a motor test (no motor session of the patient replaced it), the loaded
\* report shows no fused score and asks for the Motor domain.
C36_ErrorResultIsNoMotorRisk ==
    (activePage = "fusion" /\ ~fusionLoading /\ motorResult.kind = "error"
       /\ fusionMotor = MotorProp(motorResult)) =>
        /\ fusionView.kind = "incomplete"
        /\ "Motor" \in fusionView.missing
        /\ fusionView.fusedScore = Undefined

\* C37: the chunk list is emptied whenever another recorder becomes the
\* current one, only an event of the current recorder adds a chunk to it, and
\* only the stop event of the current recorder builds the blob of a request
\* from it; so the blob of a request holds the chunks of its own recorder, in
\* the order of their emission, and nothing else.
C37_BlobOfOwnChunks ==
    /\ [][mediaRecorder' # mediaRecorder => audioChunks' = <<>>]_vars
    /\ [][\A r \in RecIds, s \in ChunkSizes :
            ((DataAvailable(r, s) \/ OnStop(r, s)) /\ audioChunks' # audioChunks)
                => (mediaRecorder = r /\ audioChunks' = Append(audioChunks, s))]_vars
    /\ [][\A r \in RecIds : Issues(r) => mediaRecorder = r]_vars

\* C38: the answer of a probe that was issued before a probe already
\* answered leaves the status as it is, so that once overlapping probes have
\* all been answered the status is the outcome of the one issued last.
C38_LastIssuedProbeWins ==
    [][\A o \in HealthOutcomes :
          (ProbeResolve(o) /\ mounted /\ lateProbes' < lateProbes)
              => backendStatus' = backendStatus]_vars

\* C39: the report of a patient who has no stored voice session shows a fused
\* score only with a voice result that was obtained for that patient: the
\* vocal result of App then comes from a recording made for the active
\* patient.
C39_FusionOfActiveSubject ==
    (activePage = "fusion" /\ fusionView.kind = "report" /\ selectedPatient = 2) =>
        (vocalResult # 0 /\ rec[vocalResult].patient = selectedPatient)

====
